---- MODULE Spec2Model ----
(***************************************************************************)
(* A model of fsqio's RpmbuildTask (rpmbuild_task.py): the requirement     *)
(* scanner, the docker build / run / export / cleanup pipeline of          *)
(* build_rpm, and the per-target loop of execute.                          *)
(***************************************************************************)
EXTENDS Integers, Sequences, FiniteSets, TLC

(***************************************************************************)
(* Bounds of the model.                                                    *)
(***************************************************************************)
\* number of targets returned by context.targets(is_rpm_spec)
NumTargets == 2
\* longest archive stream (in entries) the export subprocess produces
MaxEntries == 2
\* number of lines of a scanned spec file
MaxLines == 2

(***************************************************************************)
(* Python string operations, on TLA+ strings.                              *)
(***************************************************************************)
CharSet(s) == {SubSeq(s, i, i) : i \in 1..Len(s)}

\* str.startswith
startswith(s, p) == Len(s) >= Len(p) /\ SubSeq(s, 1, Len(p)) = p

\* str.endswith
endswith(s, p) == Len(s) >= Len(p) /\ SubSeq(s, Len(s) - Len(p) + 1, Len(s)) = p

\* str.lstrip(chars): drop leading characters that are members of chars
RECURSIVE lstrip(_, _)
lstrip(s, chars) ==
  IF s = "" THEN ""
  ELSE IF Head(s) \in CharSet(chars) THEN lstrip(Tail(s), chars)
  ELSE s

\* str.rstrip(chars)
RECURSIVE rstrip(_, _)
rstrip(s, chars) ==
  IF s = "" THEN ""
  ELSE IF SubSeq(s, Len(s), Len(s)) \in CharSet(chars)
       THEN rstrip(SubSeq(s, 1, Len(s) - 1), chars)
  ELSE s

\* the characters str.strip() removes when called without argument
Whitespace == " \t\n\r"

\* str.strip()
strip(s) == lstrip(rstrip(s, Whitespace), Whitespace)

UpperCase == "ABCDEFGHIJKLMNOPQRSTUVWXYZ"
LowerCase == "abcdefghijklmnopqrstuvwxyz"

lowerChar(c) ==
  IF \E i \in 1..Len(UpperCase) : SubSeq(UpperCase, i, i) = c
  THEN LET i == CHOOSE j \in 1..Len(UpperCase) : SubSeq(UpperCase, j, j) = c
       IN SubSeq(LowerCase, i, i)
  ELSE c

\* str.lower()
RECURSIVE lower(_)
lower(s) == IF s = "" THEN "" ELSE lowerChar(Head(s)) \o lower(Tail(s))

\* str.find(c) for a one-character c, 1-based; 0 when c does not occur
find(s, c) ==
  IF \E i \in 1..Len(s) : SubSeq(s, i, i) = c
  THEN CHOOSE i \in 1..Len(s) :
         /\ SubSeq(s, i, i) = c
         /\ \A j \in 1..(i - 1) : SubSeq(s, j, j) # c
  ELSE 0

\* str.split(sep) for a one-character sep: a non-empty tuple of strings
RECURSIVE split(_, _)
split(s, sep) ==
  LET i == find(s, sep)
  IN IF i = 0 THEN <<s>>
     ELSE <<SubSeq(s, 1, i - 1)>> \o split(SubSeq(s, i + 1, Len(s)), sep)

\* str.split(sep, 1): at most one split
split1(s, sep) ==
  LET i == find(s, sep)
  IN IF i = 0 THEN <<s>>
     ELSE <<SubSeq(s, 1, i - 1), SubSeq(s, i + 1, Len(s))>>

(***************************************************************************)
(* The requirement scanner.                                                *)
(***************************************************************************)
Keyword == "buildrequires"

\* pkg_name = raw_build_req.strip().split(' ')[0]
pkg_name(raw_build_req) == split(strip(raw_build_req), " ")[1]

\* convert_build_req: one name per comma-separated token
convert_build_req(raw_build_reqs) ==
  LET toks == split(raw_build_reqs, ",")
  IN [i \in 1..Len(toks) |-> pkg_name(toks[i])]

\* line = line.strip().lower()
scan_line(line) == lower(strip(line))

\* line.split(':', 1)[1] raises IndexError when the line has no colon
line_raises(line) ==
  /\ startswith(scan_line(line), Keyword)
  /\ Len(split1(scan_line(line), ":")) < 2

\* what one line appends to build_reqs (when it does not raise)
line_reqs(line) ==
  IF startswith(scan_line(line), Keyword)
  THEN convert_build_req(strip(split1(scan_line(line), ":")[2]))
  ELSE <<>>

\* extract_build_reqs over a whole file: the list it returns
RECURSIVE extract_build_reqs(_)
extract_build_reqs(lines) ==
  IF lines = <<>> THEN <<>>
  ELSE line_reqs(Head(lines)) \o extract_build_reqs(Tail(lines))

\* extract_build_reqs raises instead of returning
extract_raises(lines) == \E i \in 1..Len(lines) : line_raises(lines[i])

\* ' '.join(build_reqs)
RECURSIVE join(_)
join(reqs) ==
  IF reqs = <<>> THEN ""
  ELSE IF Len(reqs) = 1 THEN reqs[1]
  ELSE reqs[1] \o " " \o join(Tail(reqs))

(***************************************************************************)
(* Configuration and inputs of the pipeline.                               *)
(***************************************************************************)
\* DEFAULT_PLATFORMS: platform id -> base image
DEFAULT_PLATFORMS == [centos6 |-> "centos:6.8", centos7 |-> "centos:7"]

\* values the --platform option is drawn from
PlatformKeys == {"centos6", "centos7", "fedora"}

\* spec files of the targets (each a tuple of lines)
TargetSpecs ==
  { <<"Name: pkg\n", "BuildRequires: foo >= 1.2, bar\n">>,
    <<"Name: pkg\n">>,
    <<"BuildRequires gcc\n">> }

RpmRoot == "home/rpmuser/rpmbuild/"

\* entry names an exported container filesystem may hold
EntryNames ==
  { RpmRoot \o "RPMS/x86_64/pkg-1.0.rpm",
    RpmRoot \o "RPMS/x86_64/readme.txt",
    RpmRoot \o "SRPMS/pkg-1.0.src.rpm",
    RpmRoot \o "SOURCES/dep.rpm",
    "home/rpmuser/dep.rpm",
    "usr/lib/rpm/RPMS/old.rpm" }

\* the filter without its test of the extension
is_rpm_entry_AnyExtension(name) ==
  startswith(name, RpmRoot \o "RPMS/") \/ startswith(name, RpmRoot \o "SRPMS/")

\* the extraction filter of the export loop
is_rpm_entry(name) ==
  /\ startswith(name, RpmRoot \o "RPMS/") \/ startswith(name, RpmRoot \o "SRPMS/")
  /\ endswith(name, ".rpm")

\* the strip with the directory name added to the stripped characters
rel_rpm_path_WiderSet(name) == lstrip(name, RpmRoot \o "RPMS/")

\* rel_rpm_path = name.lstrip('home/rpmuser/rpmbuild/')
rel_rpm_path(name) == lstrip(name, RpmRoot)

\* the files one archive entry makes the loop write
entry_files(name) ==
  IF is_rpm_entry(name) /\ rel_rpm_path(name) # ""
  THEN {rel_rpm_path(name)}
  ELSE {}

None == "None"
NoProc == [state |-> "none", rc |-> 0]

VARIABLES
  pc,                   \* position in execute / build_rpm
  keep_build_products,  \* the --keep-build-products option
  platform_key,         \* the --platform option
  target,               \* index of the target being processed (0: none yet)
  tmp_made,             \* number of temporary directories created so far
  tmpdirs,              \* temporary directories that exist on disk
  build_dir,            \* the current target's temporary directory
  staged,               \* files written into build_dir
  dockerfile_reqs,      \* the build_reqs block rendered into the Dockerfile
  uuid,                 \* number of uuid.uuid4() values drawn so far
  image_name,           \* build_rpm's image_name
  container_name,       \* build_rpm's container_name
  images,               \* images that exist in the container engine
  containers,           \* containers that exist in the container engine
  cmds,                 \* container-engine commands issued by this attempt
  proc,                 \* the export subprocess: state and exit code
  archive,              \* archive entries read from proc.stdout so far
  written,              \* files this attempt wrote under the output directory
  exc,                  \* the exception that is propagating
  rpm_spec,             \* scanner: the lines of the file being scanned
  f_pos,                \* scanner: number of lines read from the file
  build_reqs,           \* scanner: the list built so far
  scan_pc,              \* scanner: position in extract_build_reqs
  r,                    \* write_stream: the input stream and the read position
  w,                    \* write_stream: the chunks written to the output, in order
  buf,                  \* write_stream: the chunk held in memory
  ws_pc,                \* write_stream: position in the function
  pipe,                 \* the export subprocess's stdout pipe: blocks not yet read
  export_out,           \* blocks the export subprocess has still to write
  workers,              \* interleaved attempts: each attempt's local variables
  output_dir            \* interleaved attempts: files under the shared output_dir

vars == <<pc, keep_build_products, platform_key, target, tmp_made, tmpdirs,
          build_dir, staged, dockerfile_reqs, uuid, image_name, container_name,
          images, containers, cmds, proc, archive, written, exc,
          rpm_spec, f_pos, build_reqs, scan_pc,
          r, w, buf, ws_pc, pipe, export_out, workers, output_dir>>

config == <<keep_build_products, platform_key>>
scanner == <<rpm_spec, f_pos, build_reqs, scan_pc>>
engine == <<images, containers>>
copier == <<r, w, buf, ws_pc>>
piping == <<pipe, export_out>>
threads == <<workers, output_dir>>
side == <<copier, piping, threads>>
attempt == <<staged, dockerfile_reqs, uuid, image_name, container_name, cmds,
             proc, archive, written>>

\* tempfile.mkdtemp(): a fresh directory
TmpDir(n) == "/tmp/tmp" \o ToString(n)

\* 'rpm-image-{}'.format(uuid.uuid4()) tagged ':latest'
ImageName(n) == "rpm-image-" \o ToString(n) \o ":latest"

\* the container name without its uuid
ContainerName_NoUuid(n) == "rpm-builder"

\* 'rpm-builder-{}'.format(uuid.uuid4())
ContainerName(n) == "rpm-builder-" \o ToString(n)

Cmd(op, arg, rc) == [op |-> op, arg |-> arg, rc |-> rc]

\* the commands of one kind issued so far by the attempt
Issued(op) == {i \in 1..Len(cmds) : cmds[i].op = op}

ExitCodes == {0, 1}

\* an empty interval of stream positions
NoBytes == [lo |-> 0, hi |-> 0]

\* write_stream is not running
CopierIdle ==
  /\ r = [bursts |-> <<>>, pos |-> 0]
  /\ w = <<>>
  /\ buf = NoBytes
  /\ ws_pc = "idle"

\* the pipe is not modelled block by block
PipingIdle == pipe = <<>> /\ export_out = <<>>

\* no attempts run side by side
ThreadsIdle == workers = <<>> /\ output_dir = {}

Init ==
  /\ CopierIdle
  /\ PipingIdle
  /\ ThreadsIdle
  /\ pc = "execute"
  /\ keep_build_products \in BOOLEAN
  /\ platform_key \in PlatformKeys
  /\ target = 0
  /\ tmp_made = 0
  /\ tmpdirs = {}
  /\ build_dir = None
  /\ staged = {}
  /\ dockerfile_reqs = None
  /\ uuid = 0
  /\ image_name = None
  /\ container_name = None
  /\ images = {}
  /\ containers = {}
  /\ cmds = <<>>
  /\ proc = NoProc
  /\ archive = <<>>
  /\ written = {}
  /\ exc = None
  /\ rpm_spec = <<>>
  /\ f_pos = 0
  /\ build_reqs = <<>>
  /\ scan_pc = "idle"

(***************************************************************************)
(* execute                                                                 *)
(***************************************************************************)
\* an unknown platform falls back to a default instead of raising
ResolvePlatform_Default ==
  /\ pc = "execute"
  /\ pc' = "loop"
  /\ UNCHANGED <<config, target, tmp_made, tmpdirs, build_dir, attempt, engine, exc, scanner, side>>

\* platform = self.get_options().platforms[platform_key]
ResolvePlatform ==
  /\ pc = "execute"
  /\ IF platform_key \in DOMAIN DEFAULT_PLATFORMS
     THEN pc' = "loop" /\ exc' = exc
     ELSE pc' = "done" /\ exc' = "TaskError: Unknown platform"
  /\ UNCHANGED <<config, target, tmp_made, tmpdirs, build_dir, attempt, engine, scanner, side>>

\* for target in targets: with temporary_dir(...) as build_dir
EnterTarget ==
  /\ pc = "loop"
  /\ target < NumTargets
  /\ target' = target + 1
  /\ tmp_made' = tmp_made + 1
  /\ tmpdirs' = tmpdirs \cup {TmpDir(tmp_made + 1)}
  /\ build_dir' = TmpDir(tmp_made + 1)
  /\ staged' = {}
  /\ dockerfile_reqs' = None
  /\ image_name' = None
  /\ container_name' = None
  /\ cmds' = <<>>
  /\ proc' = NoProc
  /\ archive' = <<>>
  /\ written' = {}
  /\ pc' = "assemble"
  /\ UNCHANGED <<config, uuid, engine, exc, scanner, side>>

\* the loop is exhausted: execute returns
Finish ==
  /\ pc = "loop"
  /\ target = NumTargets
  /\ pc' = "done"
  /\ UNCHANGED <<config, target, tmp_made, tmpdirs, build_dir, attempt, engine, exc, scanner, side>>

\* the directory is removed only when the block is left without an exception
ExitTarget_NoFinally ==
  /\ pc = "exit_with"
  /\ tmpdirs' = IF keep_build_products \/ exc # None THEN tmpdirs ELSE tmpdirs \ {build_dir}
  /\ pc' = IF exc = None THEN "loop" ELSE "done"
  /\ UNCHANGED <<config, target, tmp_made, build_dir, attempt, engine, exc, scanner, side>>

\* the loop swallows a target's exception and goes on with the next target
ExitTarget_ContinueOnError ==
  /\ pc = "exit_with"
  /\ tmpdirs' = IF keep_build_products THEN tmpdirs ELSE tmpdirs \ {build_dir}
  /\ pc' = "loop"
  /\ UNCHANGED <<config, target, tmp_made, build_dir, attempt, engine, exc, scanner, side>>

\* leaving the with block: temporary_dir removes the directory when cleanup is set
ExitTarget ==
  /\ pc = "exit_with"
  /\ tmpdirs' = IF keep_build_products THEN tmpdirs ELSE tmpdirs \ {build_dir}
  /\ pc' = IF exc = None THEN "loop" ELSE "done"
  /\ UNCHANGED <<config, target, tmp_made, build_dir, attempt, engine, exc, scanner, side>>

(***************************************************************************)
(* build_rpm                                                               *)
(***************************************************************************)
\* outcomes of the context assembly: which copy, if any, fails
AssemblyFaults ==
  {"none", "copy_spec", "copy_source", "render_entrypoint", "copy_context_file"}

\* the context is assembled inside the try block, after the image is named
AssembleContext_InsideTry ==
  /\ pc = "assemble"
  /\ uuid' = uuid + 1
  /\ image_name' = ImageName(uuid + 1)
  /\ \E spec \in TargetSpecs, fault \in AssemblyFaults :
       IF fault # "none" \/ extract_raises(spec)
       THEN /\ exc' = IF fault = "copy_spec" THEN "IOError"
                      ELSE IF extract_raises(spec) THEN "IndexError"
                      ELSE IF fault = "render_entrypoint" THEN "RenderError"
                      ELSE "IOError"
            /\ staged' = IF fault = "copy_spec" THEN {} ELSE {"spec"}
            /\ pc' = "finally_rm"
            /\ UNCHANGED dockerfile_reqs
       ELSE /\ staged' = {"spec", "sources", "build_rpm.sh", "context_files", "Dockerfile"}
            /\ dockerfile_reqs' = IF extract_build_reqs(spec) # <<>>
                                  THEN join(extract_build_reqs(spec))
                                  ELSE None
            /\ pc' = "build"
            /\ exc' = exc
  /\ UNCHANGED <<config, target, tmp_made, tmpdirs, build_dir, container_name,
                 cmds, proc, archive, written, engine, scanner, side>>

\* lines 117-175: stage the build context, then name the image
AssembleContext ==
  /\ pc = "assemble"
  /\ \E spec \in TargetSpecs, fault \in AssemblyFaults :
       IF fault = "copy_spec"
       THEN /\ exc' = "IOError"
            /\ pc' = "exit_with"
            /\ UNCHANGED <<staged, dockerfile_reqs, uuid, image_name>>
       ELSE IF extract_raises(spec)
       THEN /\ exc' = "IndexError"
            /\ staged' = {"spec"}
            /\ pc' = "exit_with"
            /\ UNCHANGED <<dockerfile_reqs, uuid, image_name>>
       ELSE IF fault = "copy_source"
       THEN /\ exc' = "IOError"
            /\ staged' = {"spec"}
            /\ pc' = "exit_with"
            /\ UNCHANGED <<dockerfile_reqs, uuid, image_name>>
       ELSE IF fault = "render_entrypoint"
       THEN /\ exc' = "RenderError"
            /\ staged' = {"spec", "sources"}
            /\ pc' = "exit_with"
            /\ UNCHANGED <<dockerfile_reqs, uuid, image_name>>
       ELSE IF fault = "copy_context_file"
       THEN /\ exc' = "IOError"
            /\ staged' = {"spec", "sources", "build_rpm.sh"}
            /\ pc' = "exit_with"
            /\ UNCHANGED <<dockerfile_reqs, uuid, image_name>>
       ELSE /\ staged' = {"spec", "sources", "build_rpm.sh", "context_files", "Dockerfile"}
            /\ dockerfile_reqs' = IF extract_build_reqs(spec) # <<>>
                                  THEN join(extract_build_reqs(spec))
                                  ELSE None
            /\ uuid' = uuid + 1
            /\ image_name' = ImageName(uuid + 1)
            /\ pc' = "build"
            /\ exc' = exc
  /\ UNCHANGED <<config, target, tmp_made, tmpdirs, build_dir, container_name,
                 cmds, proc, archive, written, engine, scanner, side>>

\* the build's exit code is ignored (subprocess.call instead of check_call)
BuildImage_IgnoreExit ==
  /\ pc = "build"
  /\ \E rc \in ExitCodes :
       /\ cmds' = Append(cmds, Cmd("build", image_name, rc))
       /\ images' = IF rc = 0 THEN images \cup {image_name} ELSE images
  /\ pc' = "run"
  /\ UNCHANGED <<config, target, tmp_made, tmpdirs, build_dir, staged, dockerfile_reqs,
                 uuid, image_name, container_name, containers, proc, archive, written,
                 exc, scanner, side>>

\* lines 178-195: docker build -t image_name build_dir, by check_call
BuildImage ==
  /\ pc = "build"
  /\ \E rc \in ExitCodes :
       /\ cmds' = Append(cmds, Cmd("build", image_name, rc))
       /\ IF rc = 0
          THEN /\ images' = images \cup {image_name}
               /\ pc' = "run"
               /\ exc' = exc
          ELSE /\ images' = images
               /\ pc' = "finally_rm"
               /\ exc' = "TaskError: Failed to build image"
  /\ UNCHANGED <<config, target, tmp_made, tmpdirs, build_dir, staged, dockerfile_reqs,
                 uuid, image_name, container_name, containers, proc, archive, written,
                 scanner, side>>

\* the run's exit code is ignored (subprocess.call instead of check_call)
RunContainer_IgnoreExit ==
  /\ pc = "run"
  /\ uuid' = uuid + 1
  /\ container_name' = ContainerName(uuid + 1)
  /\ \E rc \in ExitCodes, created \in BOOLEAN :
       /\ rc = 0 => created
       /\ cmds' = Append(cmds, Cmd("run", ContainerName(uuid + 1), rc))
       /\ containers' = IF created
                        THEN containers \cup {[name |-> ContainerName(uuid + 1),
                                               image |-> image_name]}
                        ELSE containers
  /\ pc' = "export"
  /\ UNCHANGED <<config, target, tmp_made, tmpdirs, build_dir, staged, dockerfile_reqs,
                 image_name, images, proc, archive, written, exc, scanner, side>>

\* lines 197-218: docker run --name=container_name image_name, by check_call;
\* a run that exits non-zero may or may not have left the container behind
RunContainer ==
  /\ pc = "run"
  /\ uuid' = uuid + 1
  /\ container_name' = ContainerName(uuid + 1)
  /\ \E rc \in ExitCodes, created \in BOOLEAN :
       /\ rc = 0 => created
       /\ cmds' = Append(cmds, Cmd("run", ContainerName(uuid + 1), rc))
       /\ containers' = IF created
                        THEN containers \cup {[name |-> ContainerName(uuid + 1),
                                               image |-> image_name]}
                        ELSE containers
       /\ IF rc = 0
          THEN pc' = "export" /\ exc' = exc
          ELSE pc' = "finally_rm" /\ exc' = "TaskError: Failed to run build container"
  /\ UNCHANGED <<config, target, tmp_made, tmpdirs, build_dir, staged, dockerfile_reqs,
                 image_name, images, proc, archive, written, scanner, side>>

\* lines 220-230: docker export container_name, by Popen with a pipe on stdout
StartExport ==
  /\ pc = "export"
  /\ cmds' = Append(cmds, Cmd("export", container_name, 0))
  /\ proc' = [state |-> "running", rc |-> 0]
  /\ pc' = "extract"
  /\ UNCHANGED <<config, target, tmp_made, tmpdirs, build_dir, staged, dockerfile_reqs,
                 uuid, image_name, container_name, engine, archive, written, exc, scanner, side>>

\* the export subprocess exits, with any exit code, while or after it is read
ExportExits ==
  /\ proc.state = "running"
  /\ \E rc \in ExitCodes : proc' = [state |-> "exited", rc |-> rc]
  /\ UNCHANGED <<pc, config, target, tmp_made, tmpdirs, build_dir, staged,
                 dockerfile_reqs, uuid, image_name, container_name, engine, cmds,
                 archive, written, exc, scanner, side>>

\* lines 231-240: one iteration of `for entry in tar`
ExtractEntry ==
  /\ pc = "extract"
  /\ Len(archive) < MaxEntries
  /\ \E name \in EntryNames :
       /\ archive' = Append(archive, name)
       /\ written' = written \cup entry_files(name)
  /\ UNCHANGED <<pc, config, target, tmp_made, tmpdirs, build_dir, staged,
                 dockerfile_reqs, uuid, image_name, container_name, engine, cmds,
                 proc, exc, scanner, side>>

\* reading the stream or writing a file raises inside the loop
ExtractRaises ==
  /\ pc = "extract"
  /\ \E e \in {"ReadError", "IOError"} : exc' = e
  /\ pc' = "finally_rm"
  /\ UNCHANGED <<config, target, tmp_made, tmpdirs, build_dir, attempt, engine, scanner, side>>

\* the archive ends: the for loop and the tarfile block are left
EndOfArchive ==
  /\ pc = "extract"
  /\ pc' = "wait"
  /\ UNCHANGED <<config, target, tmp_made, tmpdirs, build_dir, attempt, engine, exc, scanner, side>>

\* the export's exit code is waited for but not tested
WaitExport_NoCheck ==
  /\ pc = "wait"
  /\ proc.state = "exited"
  /\ proc' = [proc EXCEPT !.state = "waited"]
  /\ pc' = "finally_rm"
  /\ UNCHANGED <<config, target, tmp_made, tmpdirs, build_dir, staged, dockerfile_reqs,
                 uuid, image_name, container_name, engine, cmds, archive, written,
                 exc, scanner, side>>

\* lines 242-244: retcode = proc.wait(); non-zero raises
WaitExport ==
  /\ pc = "wait"
  /\ proc.state = "exited"
  /\ proc' = [proc EXCEPT !.state = "waited"]
  /\ exc' = IF proc.rc # 0 THEN "TaskError: Failed to extract RPMS" ELSE exc
  /\ pc' = "finally_rm"
  /\ UNCHANGED <<config, target, tmp_made, tmpdirs, build_dir, staged, dockerfile_reqs,
                 uuid, image_name, container_name, engine, cmds, archive, written,
                 scanner, side>>

\* docker rm exits 0 exactly when it removed an existing container
RmOutcomes(name) ==
  IF \E c \in containers : c.name = name THEN ExitCodes ELSE ExitCodes \ {0}

\* docker rmi -f: removes an existing image even when a container uses it
RmiOutcomes_Force(name) ==
  IF name \in images THEN ExitCodes ELSE ExitCodes \ {0}

\* docker rmi exits 0 only for an existing image that no container uses
RmiOutcomes(name) ==
  IF name \in images /\ ~ \E c \in containers : c.image = name
  THEN ExitCodes ELSE ExitCodes \ {0}

\* the container is removed after the try block instead of in a finally clause
RemoveContainer_OnSuccessOnly ==
  /\ pc = "finally_rm"
  /\ IF container_name # None /\ ~ keep_build_products /\ exc = None
     THEN \E rc \in RmOutcomes(container_name) :
            /\ cmds' = Append(cmds, Cmd("rm", container_name, rc))
            /\ containers' = IF rc = 0
                             THEN {c \in containers : c.name # container_name}
                             ELSE containers
     ELSE UNCHANGED <<cmds, containers>>
  /\ pc' = "finally_rmi"
  /\ UNCHANGED <<config, target, tmp_made, tmpdirs, build_dir, staged, dockerfile_reqs,
                 uuid, image_name, container_name, images, proc, archive, written,
                 exc, scanner, side>>

\* the container is removed whatever keep_build_products says
RemoveContainer_IgnoreKeep ==
  /\ pc = "finally_rm"
  /\ IF container_name # None
     THEN \E rc \in RmOutcomes(container_name) :
            /\ cmds' = Append(cmds, Cmd("rm", container_name, rc))
            /\ containers' = IF rc = 0
                             THEN {c \in containers : c.name # container_name}
                             ELSE containers
     ELSE UNCHANGED <<cmds, containers>>
  /\ pc' = "finally_rmi"
  /\ UNCHANGED <<config, target, tmp_made, tmpdirs, build_dir, staged, dockerfile_reqs,
                 uuid, image_name, container_name, images, proc, archive, written,
                 exc, scanner, side>>

\* lines 247-251: finally, docker rm container_name by subprocess.call
RemoveContainer ==
  /\ pc = "finally_rm"
  /\ IF container_name # None /\ ~ keep_build_products
     THEN \E rc \in RmOutcomes(container_name) :
            /\ cmds' = Append(cmds, Cmd("rm", container_name, rc))
            /\ containers' = IF rc = 0
                             THEN {c \in containers : c.name # container_name}
                             ELSE containers
     ELSE UNCHANGED <<cmds, containers>>
  /\ pc' = "finally_rmi"
  /\ UNCHANGED <<config, target, tmp_made, tmpdirs, build_dir, staged, dockerfile_reqs,
                 uuid, image_name, container_name, images, proc, archive, written,
                 exc, scanner, side>>

\* the image is removed by check_call: a non-zero exit raises
RemoveImage_CheckCall ==
  /\ pc = "finally_rmi"
  /\ IF ~ keep_build_products
     THEN \E rc \in RmiOutcomes(image_name) :
            /\ cmds' = Append(cmds, Cmd("rmi", image_name, rc))
            /\ images' = IF rc = 0 THEN images \ {image_name} ELSE images
            /\ exc' = IF rc = 0 THEN exc ELSE "CalledProcessError"
     ELSE UNCHANGED <<cmds, images, exc>>
  /\ pc' = "exit_with"
  /\ UNCHANGED <<config, target, tmp_made, tmpdirs, build_dir, staged, dockerfile_reqs,
                 uuid, image_name, container_name, containers, proc, archive, written,
                 scanner, side>>

\* the image is removed only when the build had produced it
RemoveImage_IfBuilt ==
  /\ pc = "finally_rmi"
  /\ IF ~ keep_build_products /\ image_name \in images
     THEN \E rc \in RmiOutcomes(image_name) :
            /\ cmds' = Append(cmds, Cmd("rmi", image_name, rc))
            /\ images' = IF rc = 0 THEN images \ {image_name} ELSE images
     ELSE UNCHANGED <<cmds, images>>
  /\ pc' = "exit_with"
  /\ UNCHANGED <<config, target, tmp_made, tmpdirs, build_dir, staged, dockerfile_reqs,
                 uuid, image_name, container_name, containers, proc, archive, written,
                 exc, scanner, side>>

\* lines 253-257: finally, docker rmi image_name by subprocess.call
RemoveImage ==
  /\ pc = "finally_rmi"
  /\ IF ~ keep_build_products
     THEN \E rc \in RmiOutcomes(image_name) :
            /\ cmds' = Append(cmds, Cmd("rmi", image_name, rc))
            /\ images' = IF rc = 0 THEN images \ {image_name} ELSE images
     ELSE UNCHANGED <<cmds, images>>
  /\ pc' = "exit_with"
  /\ UNCHANGED <<config, target, tmp_made, tmpdirs, build_dir, staged, dockerfile_reqs,
                 uuid, image_name, container_name, containers, proc, archive, written,
                 exc, scanner, side>>

Next ==
  \/ ResolvePlatform
  \/ EnterTarget
  \/ Finish
  \/ ExitTarget
  \/ AssembleContext
  \/ BuildImage
  \/ RunContainer
  \/ StartExport
  \/ ExportExits
  \/ ExtractEntry
  \/ ExtractRaises
  \/ EndOfArchive
  \/ WaitExport
  \/ RemoveContainer
  \/ RemoveImage

Spec == Init /\ [][Next]_vars

(***************************************************************************)
(* extract_build_reqs, line by line, over bounded spec files.              *)
(***************************************************************************)
\* the lines of the scanned files: keyword, separator, requirement list
ScanLines ==
  { kw \o sep \o reqs \o "\n" :
      kw \in {"BuildRequires", "buildrequires", "Requires"},
      sep \in {":", ": ", ""},
      reqs \in {"", "gcc", "Foo", "a,b", "foo >= 1.2, bar"} }
  \cup { "  BUILDREQUIRES:\tmake , \n", "Name: pkg\n", "# BuildRequires: x\n" }

\* the spec files: every sequence of at most MaxLines lines
SpecFiles == UNION {[1..n -> ScanLines] : n \in 0..MaxLines}

ScanInit ==
  /\ CopierIdle
  /\ PipingIdle
  /\ ThreadsIdle
  /\ pc = "scan"
  /\ keep_build_products = FALSE
  /\ platform_key = "centos7"
  /\ target = 0
  /\ tmp_made = 0
  /\ tmpdirs = {}
  /\ build_dir = None
  /\ staged = {}
  /\ dockerfile_reqs = None
  /\ uuid = 0
  /\ image_name = None
  /\ container_name = None
  /\ images = {}
  /\ containers = {}
  /\ cmds = <<>>
  /\ proc = NoProc
  /\ archive = <<>>
  /\ written = {}
  /\ exc = None
  /\ rpm_spec \in SpecFiles
  /\ f_pos = 0
  /\ build_reqs = <<>>
  /\ scan_pc = "loop"

pipeline == <<pc, config, target, tmp_made, tmpdirs, build_dir, attempt, engine>>

\* lines 100-104: the loop body, for a line that does not raise
ScanLine ==
  /\ scan_pc = "loop"
  /\ f_pos < Len(rpm_spec)
  /\ ~ line_raises(rpm_spec[f_pos + 1])
  /\ f_pos' = f_pos + 1
  /\ build_reqs' = build_reqs \o line_reqs(rpm_spec[f_pos + 1])
  /\ UNCHANGED <<pipeline, side, exc, rpm_spec, scan_pc>>

\* line 103: split(':', 1)[1] raises IndexError
ScanRaises ==
  /\ scan_pc = "loop"
  /\ f_pos < Len(rpm_spec)
  /\ line_raises(rpm_spec[f_pos + 1])
  /\ f_pos' = f_pos + 1
  /\ exc' = "IndexError"
  /\ scan_pc' = "raised"
  /\ UNCHANGED <<pipeline, side, rpm_spec, build_reqs>>

\* line 106: return build_reqs
ScanReturn ==
  /\ scan_pc = "loop"
  /\ f_pos = Len(rpm_spec)
  /\ scan_pc' = "returned"
  /\ UNCHANGED <<pipeline, side, exc, rpm_spec, f_pos, build_reqs>>

ScanNext == ScanLine \/ ScanRaises \/ ScanReturn

ScanSpec == ScanInit /\ [][ScanNext]_vars

(***************************************************************************)
(* The filter and the prefix strip of the export loop, on one entry drawn  *)
(* from a wider set of names.                                              *)
(***************************************************************************)
\* names under and beside the rpmbuild root, with tails made of characters
\* that do and do not occur in 'home/rpmuser/rpmbuild/'
StripNames ==
  { root \o dir \o tail \o ext :
      root \in {RpmRoot, "home/rpmuser/", "/" \o RpmRoot},
      dir \in {"RPMS/", "SRPMS/", "SOURCES/", "rpms/", "srpms/", ""},
      tail \in {"", "home/lib", "rpmbuild/", "x86_64/pkg-1.0", "/s", "R"},
      ext \in {".rpm", ".txt", ""} }

StripInit ==
  /\ CopierIdle
  /\ PipingIdle
  /\ ThreadsIdle
  /\ pc = "strip"
  /\ keep_build_products = FALSE
  /\ platform_key = "centos7"
  /\ target = 0
  /\ tmp_made = 0
  /\ tmpdirs = {}
  /\ build_dir = None
  /\ staged = {}
  /\ dockerfile_reqs = None
  /\ uuid = 0
  /\ image_name = None
  /\ container_name = None
  /\ images = {}
  /\ containers = {}
  /\ cmds = <<>>
  /\ proc = NoProc
  /\ archive = <<>>
  /\ written = {}
  /\ exc = None
  /\ rpm_spec = <<>>
  /\ f_pos = 0
  /\ build_reqs = <<>>
  /\ scan_pc = "idle"

\* lines 232-240 for one entry: filter, strip, write
StripEntry ==
  /\ pc = "strip"
  /\ \E name \in StripNames :
       /\ archive' = <<name>>
       /\ written' = entry_files(name)
  /\ pc' = "stripped"
  /\ UNCHANGED <<config, target, tmp_made, tmpdirs, build_dir, staged, dockerfile_reqs,
                 uuid, image_name, container_name, engine, cmds, proc, exc, scanner, side>>

StripNext == StripEntry

StripSpec == StripInit /\ [][StripNext]_vars

(***************************************************************************)
(* write_stream, read by read.  Bytes are identified by their position in  *)
(* the input stream; a chunk is the interval of positions [lo, hi).        *)
(***************************************************************************)
\* size = 1024 * 1024
size == 1048576

\* the number of bursts in which an input stream delivers its bytes
MaxBursts == 2

\* burst lengths around the chunk size
BurstLens == {1, size - 1, size, size + 1, 2 * size}

\* the input streams: finite, delivered in bursts of these lengths
Streams == UNION {[1..n -> BurstLens] : n \in 0..MaxBursts}

RECURSIVE total(_)
\* the length of a stream
total(bursts) == IF bursts = <<>> THEN 0 ELSE Head(bursts) + total(Tail(bursts))

\* the position at which the burst holding position pos ends
burst_end(bursts, pos) ==
  LET k == CHOOSE k \in 1..Len(bursts) :
             /\ total(SubSeq(bursts, 1, k)) > pos
             /\ total(SubSeq(bursts, 1, k - 1)) <= pos
  IN  total(SubSeq(bursts, 1, k))

\* r.read(n): at most n bytes, fewer when the current burst ends sooner,
\* none at end-of-stream
read(stream, n) ==
  IF stream.pos = total(stream.bursts)
  THEN [lo |-> stream.pos, hi |-> stream.pos]
  ELSE [lo |-> stream.pos,
        hi |-> IF stream.pos + n < burst_end(stream.bursts, stream.pos)
               THEN stream.pos + n
               ELSE burst_end(stream.bursts, stream.pos)]

\* all variables outside write_stream stay as they are
NotCopier == <<pc, config, target, tmp_made, tmpdirs, build_dir, staged, dockerfile_reqs,
               uuid, image_name, container_name, engine, cmds, proc, archive, written,
               exc, scanner, piping, threads>>

WriteInit ==
  /\ r \in {[bursts |-> b, pos |-> 0] : b \in Streams}
  /\ w = <<>>
  /\ buf = NoBytes
  /\ ws_pc = "start"
  /\ PipingIdle
  /\ ThreadsIdle
  /\ pc = "write_stream"
  /\ keep_build_products = FALSE
  /\ platform_key = "centos7"
  /\ target = 0
  /\ tmp_made = 0
  /\ tmpdirs = {}
  /\ build_dir = None
  /\ staged = {}
  /\ dockerfile_reqs = None
  /\ uuid = 0
  /\ image_name = None
  /\ container_name = None
  /\ images = {}
  /\ containers = {}
  /\ cmds = <<>>
  /\ proc = NoProc
  /\ archive = <<>>
  /\ written = {}
  /\ exc = None
  /\ rpm_spec = <<>>
  /\ f_pos = 0
  /\ build_reqs = <<>>
  /\ scan_pc = "idle"

\* line 83: buf = r.read(size)
FirstRead ==
  /\ ws_pc = "start"
  /\ buf' = read(r, size)
  /\ r' = [r EXCEPT !.pos = read(r, size).hi]
  /\ ws_pc' = "while"
  /\ UNCHANGED <<w, NotCopier>>

\* lines 84-85: buf is not empty: w.write(buf)
WriteChunk ==
  /\ ws_pc = "while"
  /\ buf.hi > buf.lo
  /\ w' = Append(w, buf)
  /\ ws_pc' = "read"
  /\ UNCHANGED <<r, buf, NotCopier>>

\* line 86: buf = r.read(size)
NextRead ==
  /\ ws_pc = "read"
  /\ buf' = read(r, size)
  /\ r' = [r EXCEPT !.pos = read(r, size).hi]
  /\ ws_pc' = "while"
  /\ UNCHANGED <<w, NotCopier>>

\* the loop ends at the first chunk shorter than size
EndOfStream_OnShortChunk ==
  /\ ws_pc = "while"
  /\ buf.hi - buf.lo < size
  /\ ws_pc' = "return"
  /\ UNCHANGED <<r, w, buf, NotCopier>>

\* line 84: buf is empty: the loop ends and write_stream returns
EndOfStream ==
  /\ ws_pc = "while"
  /\ buf.hi = buf.lo
  /\ ws_pc' = "return"
  /\ UNCHANGED <<r, w, buf, NotCopier>>

WriteNext == FirstRead \/ WriteChunk \/ NextRead \/ EndOfStream

\* write_stream is ordinary sequential code: it keeps running until it returns
WriteSpec == WriteInit /\ [][WriteNext]_vars /\ WF_vars(WriteNext)

(***************************************************************************)
(* The export pipe, block by block: docker export writes the archive to a  *)
(* pipe of bounded capacity while the for loop reads it.                   *)
(***************************************************************************)
\* the number of blocks the pipe holds before a write blocks
PipeCap == 1

\* a tar archive ends with two zero blocks
Trailer == <<"EOA", "EOA">>

\* what docker export writes: the entries, then the trailer
Exports == {entries \o Trailer :
              entries \in UNION {[1..n -> EntryNames] : n \in 0..MaxEntries}}

\* build_rpm has assembled the build context of one target and named its image
PipeInit ==
  /\ CopierIdle
  /\ PipingIdle
  /\ ThreadsIdle
  /\ pc = "build"
  /\ keep_build_products \in BOOLEAN
  /\ platform_key = "centos7"
  /\ target = 1
  /\ tmp_made = 1
  /\ tmpdirs = {TmpDir(1)}
  /\ build_dir = TmpDir(1)
  /\ staged = {"spec", "sources", "build_rpm.sh", "context_files", "Dockerfile"}
  /\ dockerfile_reqs = None
  /\ uuid = 1
  /\ image_name = ImageName(1)
  /\ container_name = None
  /\ images = {}
  /\ containers = {}
  /\ cmds = <<>>
  /\ proc = NoProc
  /\ archive = <<>>
  /\ written = {}
  /\ exc = None
  /\ rpm_spec = <<>>
  /\ f_pos = 0
  /\ build_reqs = <<>>
  /\ scan_pc = "idle"

\* lines 228-229: Popen(extract_rpms_cmd, stdout=PIPE)
PipeStartExport ==
  /\ pc = "export"
  /\ cmds' = Append(cmds, Cmd("export", container_name, 0))
  /\ proc' = [state |-> "running", rc |-> 0]
  /\ export_out' \in Exports
  /\ pipe' = <<>>
  /\ pc' = "extract"
  /\ UNCHANGED <<config, target, tmp_made, tmpdirs, build_dir, staged, dockerfile_reqs,
                 uuid, image_name, container_name, engine, archive, written, exc,
                 scanner, copier, threads>>

\* the export subprocess writes its next block; the write blocks while the pipe is full
ExporterWrites ==
  /\ proc.state = "running"
  /\ export_out # <<>>
  /\ Len(pipe) < PipeCap
  /\ pipe' = Append(pipe, Head(export_out))
  /\ export_out' = Tail(export_out)
  /\ UNCHANGED <<pipeline, exc, scanner, copier, threads>>

\* the export subprocess exits once all its output has been accepted by the pipe
ExporterExits ==
  /\ proc.state = "running"
  /\ export_out = <<>>
  /\ \E rc \in ExitCodes : proc' = [state |-> "exited", rc |-> rc]
  /\ UNCHANGED <<pc, config, target, tmp_made, tmpdirs, build_dir, staged,
                 dockerfile_reqs, uuid, image_name, container_name, engine, cmds,
                 archive, written, exc, scanner, side>>

\* the export subprocess dies with output still unwritten
ExporterDies ==
  /\ proc.state = "running"
  /\ export_out # <<>>
  /\ proc' = [state |-> "exited", rc |-> 1]
  /\ export_out' = <<>>
  /\ UNCHANGED <<pc, config, target, tmp_made, tmpdirs, build_dir, staged,
                 dockerfile_reqs, uuid, image_name, container_name, engine, cmds,
                 archive, written, exc, scanner, pipe, copier, threads>>

\* the loop is left after the first entry and the rest of the stream is never read
ReadEntry_LeavesLoop ==
  /\ pc = "extract"
  /\ pipe # <<>>
  /\ Head(pipe) # "EOA"
  /\ archive' = Append(archive, Head(pipe))
  /\ written' = written \cup entry_files(Head(pipe))
  /\ pipe' = Tail(pipe)
  /\ pc' = "wait"
  /\ UNCHANGED <<config, target, tmp_made, tmpdirs, build_dir, staged,
                 dockerfile_reqs, uuid, image_name, container_name, engine, cmds,
                 proc, exc, scanner, export_out, copier, threads>>

\* lines 231-240: the for loop reads the next entry from the pipe
ReadEntry ==
  /\ pc = "extract"
  /\ pipe # <<>>
  /\ Head(pipe) # "EOA"
  /\ archive' = Append(archive, Head(pipe))
  /\ written' = written \cup entry_files(Head(pipe))
  /\ pipe' = Tail(pipe)
  /\ UNCHANGED <<pc, config, target, tmp_made, tmpdirs, build_dir, staged,
                 dockerfile_reqs, uuid, image_name, container_name, engine, cmds,
                 proc, exc, scanner, export_out, copier, threads>>

\* line 231: the loop reads a zero block and ends; what follows it is not read
ReadEndOfArchive ==
  /\ pc = "extract"
  /\ pipe # <<>>
  /\ Head(pipe) = "EOA"
  /\ pipe' = Tail(pipe)
  /\ pc' = "wait"
  /\ UNCHANGED <<config, target, tmp_made, tmpdirs, build_dir, attempt, engine, exc,
                 scanner, export_out, copier, threads>>

\* line 231: the pipe is at end-of-file before a zero block: the loop ends or
\* tarfile raises ReadError
ReadEOF ==
  /\ pc = "extract"
  /\ pipe = <<>>
  /\ proc.state = "exited"
  /\ \/ pc' = "wait" /\ exc' = exc
     \/ pc' = "finally_rm" /\ exc' = "ReadError"
  /\ UNCHANGED <<config, target, tmp_made, tmpdirs, build_dir, attempt, engine,
                 scanner, side>>

\* the steps of build_rpm itself, from the image build to the end of the finally clause
AttemptStep ==
  \/ BuildImage
  \/ RunContainer
  \/ PipeStartExport
  \/ ReadEntry
  \/ ReadEndOfArchive
  \/ ReadEOF
  \/ WaitExport
  \/ RemoveContainer
  \/ RemoveImage

PipeNext ==
  \/ AttemptStep
  \/ ExtractRaises
  \/ ExporterWrites
  \/ ExporterExits
  \/ ExporterDies

\* build_rpm keeps running, and the export subprocess writes while the pipe has
\* room and exits once its output is accepted; nothing forces a failure
PipeSpec ==
  /\ PipeInit
  /\ [][PipeNext]_vars
  /\ WF_vars(AttemptStep)
  /\ WF_vars(ExporterWrites)
  /\ WF_vars(ExporterExits)

(***************************************************************************)
(* Two attempts side by side: each runs the body of execute's loop for its *)
(* own target, with its own local variables; the container engine, the     *)
(* uuid and temporary-directory generators and output_dir are shared.      *)
(***************************************************************************)
Workers == {"a", "b"}

\* the archive entries that make the loop write a file
ThreadEntries == {name \in EntryNames : is_rpm_entry(name)}

\* the local variables of an attempt that has not started
NewWorker ==
  [pc |-> "enter", build_dir |-> None, image_name |-> None, container_name |-> None,
   cmds |-> <<>>, written |-> {}, exc |-> None]

\* the variables no attempt running side by side touches
NotThreads == <<pc, config, target, build_dir, staged, dockerfile_reqs, image_name,
                container_name, cmds, proc, archive, written, exc, scanner, copier,
                piping>>

ConcInit ==
  /\ CopierIdle
  /\ PipingIdle
  /\ workers = [t \in Workers |-> NewWorker]
  /\ output_dir = {}
  /\ pc = "threads"
  /\ keep_build_products \in BOOLEAN
  /\ platform_key = "centos7"
  /\ target = 0
  /\ tmp_made = 0
  /\ tmpdirs = {}
  /\ build_dir = None
  /\ staged = {}
  /\ dockerfile_reqs = None
  /\ uuid = 0
  /\ image_name = None
  /\ container_name = None
  /\ images = {}
  /\ containers = {}
  /\ cmds = <<>>
  /\ proc = NoProc
  /\ archive = <<>>
  /\ written = {}
  /\ exc = None
  /\ rpm_spec = <<>>
  /\ f_pos = 0
  /\ build_reqs = <<>>
  /\ scan_pc = "idle"

\* line 268: with temporary_dir(...) as build_dir
T_Enter(t) ==
  /\ workers[t].pc = "enter"
  /\ tmp_made' = tmp_made + 1
  /\ tmpdirs' = tmpdirs \cup {TmpDir(tmp_made + 1)}
  /\ workers' = [workers EXCEPT ![t].build_dir = TmpDir(tmp_made + 1),
                                ![t].pc = "assemble"]
  /\ UNCHANGED <<uuid, engine, output_dir, NotThreads>>

\* lines 117-175: the build context is assembled, or a copy fails, and the
\* image is named
T_Assemble(t) ==
  /\ workers[t].pc = "assemble"
  /\ \E ok \in BOOLEAN :
       IF ok
       THEN /\ uuid' = uuid + 1
            /\ workers' = [workers EXCEPT ![t].image_name = ImageName(uuid + 1),
                                          ![t].pc = "build"]
       ELSE /\ uuid' = uuid
            /\ workers' = [workers EXCEPT ![t].exc = "IOError",
                                          ![t].pc = "exit_with"]
  /\ UNCHANGED <<tmp_made, tmpdirs, engine, output_dir, NotThreads>>

\* lines 177-195: docker build by check_call
T_Build(t) ==
  /\ workers[t].pc = "build"
  /\ \E rc \in ExitCodes :
       /\ images' = IF rc = 0 THEN images \cup {workers[t].image_name} ELSE images
       /\ workers' =
            [workers EXCEPT
               ![t].cmds = Append(@, Cmd("build", workers[t].image_name, rc)),
               ![t].pc = IF rc = 0 THEN "run" ELSE "finally_rm",
               ![t].exc = IF rc = 0 THEN @ ELSE "TaskError: Failed to build image"]
  /\ UNCHANGED <<tmp_made, tmpdirs, uuid, containers, output_dir, NotThreads>>

\* lines 198-218: the container is named and docker run is issued by check_call
T_Run(t) ==
  /\ workers[t].pc = "run"
  /\ uuid' = uuid + 1
  /\ \E rc \in ExitCodes, created \in BOOLEAN :
       /\ rc = 0 => created
       /\ containers' = IF created
                        THEN containers \cup {[name |-> ContainerName(uuid + 1),
                                               image |-> workers[t].image_name]}
                        ELSE containers
       /\ workers' =
            [workers EXCEPT
               ![t].container_name = ContainerName(uuid + 1),
               ![t].cmds = Append(@, Cmd("run", ContainerName(uuid + 1), rc)),
               ![t].pc = IF rc = 0 THEN "export" ELSE "finally_rm",
               ![t].exc = IF rc = 0 THEN @
                          ELSE "TaskError: Failed to run build container"]
  /\ UNCHANGED <<tmp_made, tmpdirs, images, output_dir, NotThreads>>

\* lines 220-229: docker export by Popen
T_Export(t) ==
  /\ workers[t].pc = "export"
  /\ workers' =
       [workers EXCEPT
          ![t].cmds = Append(@, Cmd("export", workers[t].container_name, 0)),
          ![t].pc = "extract"]
  /\ UNCHANGED <<tmp_made, tmpdirs, uuid, engine, output_dir, NotThreads>>

\* lines 231-240: the next matching entry of the archive, which holds each path
\* once, is written under output_dir
T_ExtractEntry(t) ==
  /\ workers[t].pc = "extract"
  /\ \E name \in ThreadEntries :
       /\ ~ (entry_files(name) \subseteq workers[t].written)
       /\ output_dir' = {f \in output_dir : f.path \notin entry_files(name)}
                          \cup {[path |-> q, by |-> t] : q \in entry_files(name)}
       /\ workers' = [workers EXCEPT ![t].written = @ \cup entry_files(name)]
  /\ UNCHANGED <<tmp_made, tmpdirs, uuid, engine, NotThreads>>

\* reading the stream or writing a file raises inside the loop
T_ExtractRaises(t) ==
  /\ workers[t].pc = "extract"
  /\ workers' = [workers EXCEPT ![t].exc = "IOError", ![t].pc = "finally_rm"]
  /\ UNCHANGED <<tmp_made, tmpdirs, uuid, engine, output_dir, NotThreads>>

\* lines 242-244: the loop ends and proc.wait() returns the export's exit code
T_Wait(t) ==
  /\ workers[t].pc = "extract"
  /\ \E rc \in ExitCodes :
       workers' =
         [workers EXCEPT
            ![t].exc = IF rc = 0 THEN @ ELSE "TaskError: Failed to extract RPMS",
            ![t].pc = "finally_rm"]
  /\ UNCHANGED <<tmp_made, tmpdirs, uuid, engine, output_dir, NotThreads>>

\* lines 246-251: docker rm by subprocess.call
T_RemoveContainer(t) ==
  /\ workers[t].pc = "finally_rm"
  /\ IF workers[t].container_name # None /\ ~ keep_build_products
     THEN \E rc \in RmOutcomes(workers[t].container_name) :
            /\ containers' =
                 IF rc = 0
                 THEN {c \in containers : c.name # workers[t].container_name}
                 ELSE containers
            /\ workers' =
                 [workers EXCEPT
                    ![t].cmds = Append(@, Cmd("rm", workers[t].container_name, rc)),
                    ![t].pc = "finally_rmi"]
     ELSE /\ containers' = containers
          /\ workers' = [workers EXCEPT ![t].pc = "finally_rmi"]
  /\ UNCHANGED <<tmp_made, tmpdirs, uuid, images, output_dir, NotThreads>>

\* lines 253-257: docker rmi by subprocess.call
T_RemoveImage(t) ==
  /\ workers[t].pc = "finally_rmi"
  /\ IF ~ keep_build_products
     THEN \E rc \in RmiOutcomes(workers[t].image_name) :
            /\ images' = IF rc = 0 THEN images \ {workers[t].image_name} ELSE images
            /\ workers' =
                 [workers EXCEPT
                    ![t].cmds = Append(@, Cmd("rmi", workers[t].image_name, rc)),
                    ![t].pc = "exit_with"]
     ELSE /\ images' = images
          /\ workers' = [workers EXCEPT ![t].pc = "exit_with"]
  /\ UNCHANGED <<tmp_made, tmpdirs, uuid, containers, output_dir, NotThreads>>

\* leaving the with block: temporary_dir removes the attempt's directory
T_Exit(t) ==
  /\ workers[t].pc = "exit_with"
  /\ tmpdirs' = IF keep_build_products THEN tmpdirs
                ELSE tmpdirs \ {workers[t].build_dir}
  /\ workers' = [workers EXCEPT ![t].pc = "returned"]
  /\ UNCHANGED <<tmp_made, uuid, engine, output_dir, NotThreads>>

\* one step of the attempt t
T_Step(t) ==
  \/ T_Enter(t)
  \/ T_Assemble(t)
  \/ T_Build(t)
  \/ T_Run(t)
  \/ T_Export(t)
  \/ T_ExtractEntry(t)
  \/ T_ExtractRaises(t)
  \/ T_Wait(t)
  \/ T_RemoveContainer(t)
  \/ T_RemoveImage(t)
  \/ T_Exit(t)

ConcNext == \E t \in Workers : T_Step(t)

ConcSpec == ConcInit /\ [][ConcNext]_vars

(***************************************************************************)
(* Properties.                                                             *)
(***************************************************************************)
\* the finally clause of the last attempt has completed
AfterFinally == pc \in {"exit_with", "loop", "done"} /\ image_name # None

\* the last attempt's with block has been left
AfterAttempt == pc \in {"loop", "done"} /\ target >= 1

BuildFailed == \E i \in Issued("build") : cmds[i].rc # 0
RunFailed == \E i \in Issued("run") : cmds[i].rc # 0

\* a command of the given kind was issued for the given name
IssuedFor(op, name) == \E i \in Issued(op) : cmds[i].arg = name

\* a command of the given kind was issued for the given name and exited 0
Succeeded(op, name) == \E i \in Issued(op) : cmds[i].arg = name /\ cmds[i].rc = 0

ContainerExists(name) == \E c \in containers : c.name = name

\* C1 as stated: after an attempt with keep_build_products unset, neither the
\* container nor the image of the attempt exists in the container engine.
C1_HandlesGone ==
  (AfterFinally /\ ~ keep_build_products) =>
     /\ ~ ContainerExists(container_name)
     /\ image_name \notin images

\* C1 amended: after an attempt with keep_build_products unset, on every path,
\* rm has been issued for the container name if one was generated and rmi has
\* been issued for the image name; a handle whose removal exited 0 is gone.
C1_RemovalsIssued ==
  (AfterFinally /\ ~ keep_build_products) =>
     /\ container_name # None => IssuedFor("rm", container_name)
     /\ Succeeded("rm", container_name) => ~ ContainerExists(container_name)
     /\ IssuedFor("rmi", image_name)
     /\ Succeeded("rmi", image_name) => image_name \notin images

\* an extraction failure whose cleanup removed both the container and the image
C1_Witness ==
  /\ pc = "exit_with"
  /\ ~ keep_build_products
  /\ exc = "TaskError: Failed to extract RPMS"
  /\ Succeeded("run", container_name)
  /\ Succeeded("rm", container_name)
  /\ Succeeded("rmi", image_name)
  /\ ~ ContainerExists(container_name)
  /\ image_name \notin images

\* C2 as stated: when the image build exits non-zero, no run command is issued,
\* container_name stays unset, no container removal is issued, and the cleanup
\* phase issues the image removal for the generated image name.
C2_BuildFailureStillRemovesImage ==
  BuildFailed =>
     /\ Issued("run") = {}
     /\ container_name = None
     /\ Issued("rm") = {}
     /\ AfterFinally => IssuedFor("rmi", image_name)

\* C2 amended: when the image build exits non-zero, no run command is issued,
\* container_name stays unset, no container removal is issued, and the cleanup
\* phase issues the image removal for the generated image name exactly when
\* keep_build_products is unset.
C2_BuildFailureSkipsRun ==
  BuildFailed =>
     /\ Issued("run") = {}
     /\ container_name = None
     /\ Issued("rm") = {}
     /\ AfterFinally => (IssuedFor("rmi", image_name) <=> ~ keep_build_products)

\* a failed build whose cleanup has issued the image removal
C2_Witness ==
  /\ pc = "exit_with"
  /\ BuildFailed
  /\ ~ keep_build_products
  /\ exc = "TaskError: Failed to build image"
  /\ IssuedFor("rmi", image_name)

\* the attempt succeeded: nothing is propagating and the export was waited for
Succeeded_Attempt == AfterFinally /\ exc = None /\ proc.state = "waited"

\* the entry names the claim selects
MatchesRpm(name) ==
  /\ startswith(name, "home/rpmuser/rpmbuild/RPMS/")
     \/ startswith(name, "home/rpmuser/rpmbuild/SRPMS/")
  /\ endswith(name, ".rpm")

\* the name with the literal prefix 'home/rpmuser/rpmbuild/' cut off
WithoutPrefix(name) == SubSeq(name, Len("home/rpmuser/rpmbuild/") + 1, Len(name))

\* C3: after a successful run the files written under the output directory are
\* exactly the archive entries under RPMS/ or SRPMS/ of the rpmbuild root that
\* end in '.rpm', each at its name with the root prefix removed.
C3_ExactlyTheRpms ==
  Succeeded_Attempt =>
     written = {WithoutPrefix(archive[i]) :
                  i \in {j \in 1..Len(archive) : MatchesRpm(archive[j])}}

\* the archive of the example: the package is written, the readme is skipped
C3_Witness ==
  /\ Succeeded_Attempt
  /\ archive = <<"home/rpmuser/rpmbuild/RPMS/x86_64/pkg-1.0.rpm",
                 "home/rpmuser/rpmbuild/RPMS/x86_64/readme.txt">>
  /\ written = {"RPMS/x86_64/pkg-1.0.rpm"}

\* what the claim says one line contributes: for a line that, trimmed and
\* compared without case, begins with the keyword, the text after its first
\* colon split on commas, each token trimmed and cut at its first space
claimed_line_reqs(line) ==
  IF startswith(lower(strip(line)), "buildrequires")
  THEN LET toks == split(split1(strip(line), ":")[2], ",")
       IN [i \in 1..Len(toks) |-> split(strip(toks[i]), " ")[1]]
  ELSE <<>>

RECURSIVE claimed_reqs(_)
claimed_reqs(lines) ==
  IF lines = <<>> THEN <<>>
  ELSE claimed_line_reqs(Head(lines)) \o claimed_reqs(Tail(lines))

\* C4: extract_build_reqs returns, in file order and with duplicates, exactly
\* the names of the lines that begin with the keyword: the tokens of the text
\* after the first colon, each trimmed and cut at its first space.
C4_ReturnsTheNames ==
  scan_pc = "returned" => build_reqs = claimed_reqs(rpm_spec)

\* C5: a cleanup step never raises and never replaces the attempt's outcome:
\* whatever the exit codes of rm and rmi, the exception propagating when the
\* finally clause is entered is the one propagating when it is left.
C5_CleanupKeepsOutcome ==
  [][(pc \in {"finally_rm", "finally_rmi"}) => (exc' = exc)]_vars

\* both removals failed and the extraction error is still the outcome
C5_Witness ==
  /\ pc = "exit_with"
  /\ exc = "TaskError: Failed to extract RPMS"
  /\ \E i \in Issued("rm") : cmds[i].rc # 0
  /\ \E i \in Issued("rmi") : cmds[i].rc # 0

\* C6: the export's exit code is read only after the archive has been consumed,
\* a non-zero exit code fails the attempt with the extraction error even when
\* files were written, and no attempt whose export exited non-zero succeeds.
C6_ExportExitIsFatal ==
  /\ pc = "extract" => proc.state # "waited"
  /\ (proc.state = "waited" /\ proc.rc # 0) => exc = "TaskError: Failed to extract RPMS"
  /\ (AfterFinally /\ proc.state \in {"exited", "waited"} /\ proc.rc # 0) => exc # None

\* files were extracted and the export then exited non-zero
C6_Witness ==
  /\ AfterFinally
  /\ proc.state = "waited"
  /\ proc.rc # 0
  /\ written # {}
  /\ exc = "TaskError: Failed to extract RPMS"

\* C7: when the run command exits non-zero the attempt fails with the run
\* error, no export is started and no file is written, and the container name
\* reaches the cleanup phase, which removes it unless products are kept.
C7_RunFailureSkipsExport ==
  RunFailed =>
     /\ exc = "TaskError: Failed to run build container"
     /\ Issued("export") = {}
     /\ proc = NoProc
     /\ archive = <<>>
     /\ written = {}
     /\ container_name # None
     /\ IssuedFor("run", container_name)
     /\ pc \in {"finally_rm", "finally_rmi", "exit_with", "done"}
     /\ (AfterFinally /\ ~ keep_build_products) => IssuedFor("rm", container_name)

\* a failed run whose container was handed to rm
C7_Witness ==
  /\ pc = "exit_with"
  /\ RunFailed
  /\ ContainerExists(container_name) \/ Succeeded("rm", container_name)
  /\ IssuedFor("rm", container_name)

\* C8: once a target's attempt is over, on every exit path, its temporary
\* build directory exists exactly when keep_build_products is set.
C8_TmpDirReleased ==
  AfterAttempt =>
     /\ build_dir \in tmpdirs <=> keep_build_products
     /\ tmpdirs = IF keep_build_products THEN {TmpDir(i) : i \in 1..tmp_made} ELSE {}

\* a context-assembly failure, after which the directory is gone
C8_Witness ==
  /\ pc = "done"
  /\ ~ keep_build_products
  /\ exc = "IOError"
  /\ image_name = None
  /\ tmp_made >= 1
  /\ tmpdirs = {}

\* C9: with keep_build_products set no rm and no rmi is issued on any path,
\* and an image that was built and a container that was run stay in the engine.
C9_KeptProductsRemain ==
  keep_build_products =>
     /\ Issued("rm") = {}
     /\ Issued("rmi") = {}
     /\ Succeeded("build", image_name) => image_name \in images
     /\ Succeeded("run", container_name) => ContainerExists(container_name)

\* a kept attempt that failed in extraction with its image and container left
C9_Witness ==
  /\ pc = "exit_with"
  /\ keep_build_products
  /\ exc # None
  /\ image_name \in images
  /\ ContainerExists(container_name)

\* C10: with a platform id that is no key of the platform table, execute ends
\* with the unknown-platform error and no target is processed: no temporary
\* directory, no staged file, no container-engine command.
C10_UnknownPlatformAborts ==
  platform_key \notin DOMAIN DEFAULT_PLATFORMS =>
     /\ pc \in {"execute", "done"}
     /\ pc = "done" => exc = "TaskError: Unknown platform"
     /\ target = 0
     /\ tmp_made = 0
     /\ tmpdirs = {}
     /\ staged = {}
     /\ cmds = <<>>
     /\ uuid = 0

\* execute has ended with the unknown-platform error
C10_Witness ==
  /\ pc = "done"
  /\ platform_key = "fedora"
  /\ exc = "TaskError: Unknown platform"

\* C11 as stated: in the cleanup phase rm is issued, and has completed, before
\* rmi is issued; rm is issued only for a container name that was generated;
\* rmi is issued unconditionally.
C11_RmThenRmiAlways ==
  /\ \A i \in Issued("rm"), j \in Issued("rmi") : i < j
  /\ \A i \in Issued("rm") : container_name # None /\ cmds[i].arg = container_name
  /\ AfterFinally => IssuedFor("rmi", image_name)

\* C11 amended: in the cleanup phase rm is issued, and has completed, before
\* rmi is issued; rm is issued only for a container name that was generated;
\* with keep_build_products unset rmi is issued whether or not the build
\* succeeded and whatever rm's exit status, and with it set neither is issued.
C11_RmThenRmi ==
  /\ \A i \in Issued("rm"), j \in Issued("rmi") : i < j
  /\ \A i \in Issued("rm") : container_name # None /\ cmds[i].arg = container_name
  /\ (pc = "finally_rmi" /\ container_name # None /\ ~ keep_build_products)
        => IssuedFor("rm", container_name)
  /\ pc = "finally_rmi" => Issued("rmi") = {}
  /\ (AfterFinally /\ ~ keep_build_products) => IssuedFor("rmi", image_name)
  /\ keep_build_products => Issued("rm") \cup Issued("rmi") = {}

\* a successful attempt whose rm failed and whose rmi was issued after it
C11_Witness ==
  /\ pc = "exit_with"
  /\ exc = None
  /\ \E i \in Issued("rm"), j \in Issued("rmi") : i < j /\ cmds[i].rc # 0

\* C12: every container-engine process has exited before the next
\* container-engine command is issued; in particular no command is issued
\* while the export subprocess is still running.
C12_OneProcessAtATime ==
  [][(cmds' # cmds) => (proc.state # "running")]_vars

\* C13: a container exists in the engine only while the image it was created
\* from exists, for every combination of rm and rmi outcomes.
C13_ContainerHasImage ==
  \A c \in containers : c.image \in images

\* rm failed, rmi was issued and refused: container and image are both left
C13_Witness ==
  /\ pc = "exit_with"
  /\ ~ keep_build_products
  /\ \E i \in Issued("rm") : cmds[i].rc # 0
  /\ IssuedFor("rmi", image_name)
  /\ ContainerExists(container_name)
  /\ image_name \in images

\* t occurs in s as a run of consecutive characters
occurs_in(t, s) ==
  \E k \in 0..(Len(s) - Len(t)) : SubSeq(s, k + 1, k + Len(t)) = t

\* C14: extract_build_reqs never raises, and every token it returns is text
\* of the file, character for character.
C14_NeverRaisesVerbatim ==
  /\ scan_pc # "raised"
  /\ scan_pc = "returned" =>
       \A i \in 1..Len(build_reqs) :
          \E j \in 1..Len(rpm_spec) : occurs_in(build_reqs[i], rpm_spec[j])

\* the context assembly of the last attempt failed
AssemblyFailed == target >= 1 /\ pc # "assemble" /\ "Dockerfile" \notin staged

\* C18: when context assembly fails the attempt ends with that error, no
\* image or container name is generated and no container-engine command is
\* issued for the target: no build, run or export, and no rm or rmi.
C18_AssemblyFailureIssuesNothing ==
  AssemblyFailed =>
     /\ exc \in {"IOError", "IndexError", "RenderError"}
     /\ image_name = None
     /\ container_name = None
     /\ cmds = <<>>
     /\ proc = NoProc
     /\ pc \in {"exit_with", "done"}

\* the requirement scan raised: the run is over and nothing was issued
C18_Witness ==
  /\ pc = "done"
  /\ exc = "IndexError"
  /\ staged = {"spec"}
  /\ cmds = <<>>
  /\ images = {}

\* the number of names the current attempt has drawn from uuid.uuid4()
NamesDrawn ==
  (IF image_name # None THEN 1 ELSE 0) + (IF container_name # None THEN 1 ELSE 0)

\* C19: targets are processed one at a time; a failed attempt ends the run
\* after its cleanup and directory release, with no later target started, and
\* every earlier target ran its whole pipeline.
C19_FailureStopsRun ==
  /\ tmp_made = target
  /\ pc = "loop" => exc = None
  /\ (pc = "loop" /\ target >= 1) => (proc.state = "waited" /\ proc.rc = 0)
  /\ target >= 1 => uuid = 2 * (target - 1) + NamesDrawn
  /\ (pc = "done" /\ exc # None /\ target >= 1) =>
        (~ keep_build_products => tmpdirs = {})
  /\ exc # None => pc \notin {"loop", "assemble", "build", "run", "export"}

\* the first target's run failed: execute is over and no second target began
C19_Witness ==
  /\ pc = "done"
  /\ exc = "TaskError: Failed to run build container"
  /\ target = 1
  /\ target < NumTargets
  /\ tmp_made = 1
  /\ uuid = 2

\* C15 as stated: some entry name that passes the extraction filter is
\* over-stripped: the character-class strip removes more than the literal
\* prefix 'home/rpmuser/rpmbuild/'.
C15_OverStripExists ==
  pc = "stripped" =>
     \E name \in StripNames :
        is_rpm_entry(name) /\ rel_rpm_path(name) # WithoutPrefix(name)

\* C15 amended: no entry name that passes the extraction filter is
\* over-stripped: for every such name the character-class strip removes exactly
\* the literal prefix, and the file is written at the exact remainder.
C15_StripIsExact ==
  pc = "stripped" =>
     \A i \in 1..Len(archive) :
        is_rpm_entry(archive[i]) =>
           /\ rel_rpm_path(archive[i]) = WithoutPrefix(archive[i])
           /\ written = {WithoutPrefix(archive[i])}

\* a matching entry whose remainder goes on with characters of the prefix
C15_Witness ==
  /\ pc = "stripped"
  /\ archive = <<"home/rpmuser/rpmbuild/RPMS/home/lib.rpm">>
  /\ written = {"RPMS/home/lib.rpm"}

\* the bytes written so far end at this position
written_end == IF w = <<>> THEN 0 ELSE w[Len(w)].hi

\* the chunks written are non-empty and follow one another from position 0
InOrderNoGaps ==
  /\ \A i \in 1..Len(w) : w[i].lo < w[i].hi
  /\ w # <<>> => w[1].lo = 0
  /\ \A i \in 1..(Len(w) - 1) : w[i + 1].lo = w[i].hi

\* what write_stream keeps true while it runs and when it returns
CopyInvariant ==
  /\ buf.hi - buf.lo <= size
  /\ InOrderNoGaps
  /\ written_end <= r.pos
  /\ ws_pc = "return" => written_end = total(r.bursts)

\* C16: write_stream terminates having written exactly the bytes of the input
\* stream, in order, and it never holds more than one chunk of at most 1 MiB,
\* whatever the length of the stream and however short the reads are.
C16_CopiesStream == [] CopyInvariant /\ <>(ws_pc = "return")

\* a stream longer than one chunk whose reads came back short, copied in full
C16_Witness ==
  /\ ws_pc = "return"
  /\ r.bursts = <<size + 1, 1>>
  /\ w = <<[lo |-> 0, hi |-> size], [lo |-> size, hi |-> size + 1],
           [lo |-> size + 1, hi |-> size + 2]>>

\* C20: an attempt that starts the image build eventually leaves its finally
\* clause: the loop reads the pipe up to the end-of-archive block, and what the
\* export subprocess writes after that fits in the pipe, so proc.wait() returns.
C20_AttemptReturns == (pc = "build") ~> (pc = "exit_with")

\* the extractor waits for the exporter while an unread block sits in the pipe
C20_Witness ==
  /\ pc = "wait"
  /\ proc.state = "running"
  /\ archive # <<>>
  /\ pipe = <<"EOA">>
  /\ export_out = <<>>

\* the image and container names the attempt t has generated
NamesOf(t) == {workers[t].image_name, workers[t].container_name} \ {None}

\* no command of one attempt names the other attempt's image or container, and
\* the attempts' names and temporary directories differ
NamesApart ==
  \A t \in Workers : \A u \in Workers \ {t} :
     /\ \A i \in 1..Len(workers[t].cmds) : workers[t].cmds[i].arg \notin NamesOf(u)
     /\ NamesOf(t) \cap NamesOf(u) = {}
     /\ workers[t].build_dir # None => workers[t].build_dir # workers[u].build_dir

\* what the attempt t can observe of the shared engine and of the file system
HandlesOf(t) ==
  [dir |-> workers[t].build_dir \in tmpdirs,
   image |-> workers[t].image_name \in images,
   containers |-> {c \in containers : \/ c.name = workers[t].container_name
                                      \/ c.image = workers[t].image_name}]

\* the files under output_dir that the attempt t wrote last
FilesOf(t) == {f \in output_dir : f.by = t}

\* a step of one attempt changes neither the other attempt's local variables
\* nor its directory, image and container
HandlesUntouched ==
  \A t \in Workers : \A u \in Workers \ {t} :
     workers'[t] # workers[t] =>
        /\ workers'[u] = workers[u]
        /\ HandlesOf(u)' = HandlesOf(u)

\* C17 as stated: interleaved attempts are isolated; no step of one attempt
\* changes anything the other owns or produced, its extracted files included,
\* so each attempt's outcome is that of a run alone.
C17_Isolated ==
  /\ [] NamesApart
  /\ [][HandlesUntouched /\
        \A t \in Workers : \A u \in Workers \ {t} :
           workers'[t] # workers[t] => FilesOf(u) \subseteq FilesOf(u)']_vars

\* C17: interleaved attempts are isolated in their commands, names, temporary
\* directories, images, containers and exceptions; a file one attempt extracted
\* is replaced by the other only at a relative path both attempts extract.
C17_IsolatedButOutputDir ==
  /\ [] NamesApart
  /\ [][HandlesUntouched /\
        \A t \in Workers : \A u \in Workers \ {t} :
           workers'[t] # workers[t] =>
              \A f \in FilesOf(u) \ FilesOf(u)' : f.path \in workers'[t].written]_vars

\* the two attempts ran interleaved (their names were drawn alternately) and
\* each returned without exception, its files extracted and its image removed
C17_Witness ==
  /\ \A t \in Workers :
        /\ workers[t].pc = "returned"
        /\ workers[t].exc = None
        /\ workers[t].written # {}
        /\ \E i \in 1..Len(workers[t].cmds) :
              workers[t].cmds[i].op = "rmi" /\ workers[t].cmds[i].rc = 0
  /\ workers["a"].image_name = ImageName(1)
  /\ workers["b"].image_name = ImageName(2)
  /\ workers["a"].container_name = ContainerName(4)
  /\ FilesOf("a") # {}
  /\ FilesOf("b") # {}

====
